---- MODULE Spec2Model ----
(***************************************************************************)
(* Host/client command-observation relay of lerobot_piper.                 *)
(*                                                                         *)
(*   robots/piper/piper_host.py                       single-arm host loop *)
(*   robots/bimanual_piper_follower/bimanual_piper_host.py   bimanual host *)
(*   robots/piper/piper_client.py                     client relay         *)
(*                                                                         *)
(* Time is counted in units of 1/UnitsPerSecond seconds.  time.time() is   *)
(* the variable wall, time.perf_counter() the variable perf.               *)
(***************************************************************************)
EXTENDS Integers, Sequences, FiniteSets, TLC

\* ----------------------------------------------------------------- clock
\* resolution of time.time() and time.perf_counter() in the model: units
\* per second
UnitsPerSecond == 10

\* ---------------------------------------------------------------- bounds
\* a working step of the loop takes 0..MaxDelay loop periods
MaxDelay == 1
\* time for which the relay specification follows the host loop (in units)
RelayHorizon == 2
\* number of forward steps of the wall clock (suspend, NTP step)
MaxJumps == 1
\* values an action axis may carry: 1..MaxVal
MaxVal == 1
\* messages a non-conflating pipe may hold (ZMQ high-water mark)
MaxQueue == 2
\* connect() calls of the client
MaxConnects == 2

\* ---------------------------------------------------------- configuration
\* PiperHostConfig.connection_time_s: the model runs the single-arm host
\* for one second (the default is 3600)
connection_time_s == 1
\* PiperHostConfig.max_loop_freq_hz: the model paces the hosts at 5 Hz (the
\* default is 60)
max_loop_freq_hz == 5
\* PiperHostConfig.watchdog_timeout_ms
watchdog_timeout_ms == 500
\* bimanual host: staleness threshold in seconds
BimanualWatchdogS == 50000000

Variants == {"single", "bimanual"}

\* ------------------------------------------------------------ action keys
\* PiperClient.action_features
ClientActionKeys ==
    {"shoulder_pan.pos", "shoulder_lift.pos", "elbow_flex.pos",
     "wrist_flex.pos", "wrist_roll.pos", "gripper.pos"}

\* Piper._motors_ft: joint_i.pos for i in range(7)
PiperMotorsFt ==
    {"joint_0.pos", "joint_1.pos", "joint_2.pos", "joint_3.pos",
     "joint_4.pos", "joint_5.pos", "joint_6.pos"}

\* Piper.action_features
PiperActionFeatures == PiperMotorsFt

\* robot.action_space of the single-arm host's key filter.  Piper defines
\* no such attribute; the base class Robot is not part of the sources, so
\* this is the "driver's recognized action keys" of the specification.
ActionSpaceKeys == PiperActionFeatures

\* the action keys of the bimanual driver.  BimanualPiperFollower is not
\* part of the sources; by the specification it holds two single-arm
\* drivers and prefixes their keys with left_ and right_.
BimanualActionSpaceKeys ==
    {"left_joint_0.pos", "left_joint_1.pos", "left_joint_2.pos",
     "left_joint_3.pos", "left_joint_4.pos", "left_joint_5.pos",
     "left_joint_6.pos",
     "right_joint_0.pos", "right_joint_1.pos", "right_joint_2.pos",
     "right_joint_3.pos", "right_joint_4.pos", "right_joint_5.pos",
     "right_joint_6.pos"}

\* the action keys the driver of a host recognizes
RecognizedKeys(v) ==
    IF v = "single" THEN ActionSpaceKeys ELSE BimanualActionSpaceKeys

\* ------------------------------------------------------- Python mappings
Vals == 1..MaxVal

PyFloat(v) == [t |-> "float", v |-> v]

\* the mappings a sender puts on the command channel: a teleoperator's
\* action, and one with a driver key, a teleoperator key and an unknown key
TeleopAction(v) == [k \in ClientActionKeys |-> PyFloat(v)]
MixedAction(v) == [k \in {"joint_0.pos", "shoulder_pan.pos", "bogus"} |-> PyFloat(v)]

ActionMaps == {TeleopAction(v) : v \in Vals} \cup {MixedAction(v) : v \in Vals}

\* ------------------------------------------------------------- JSON text
\* json.dumps of one value: a float becomes a JSON number, a str a JSON
\* string; any other object raises TypeError
JsonEncodable(x) == x.t \in {"float", "str"}

JsonValue(x) ==
    IF x.t = "float" THEN [j |-> "number", v |-> x.v]
    ELSE [j |-> "string", v |-> x.v]

\* json.loads of one value
PyValue(y) ==
    IF y.j = "number" THEN [t |-> "float", v |-> y.v]
    ELSE [t |-> "str", v |-> y.v]

\* json.dumps(mapping): the text of a JSON object
json_dumps(m) == [kind |-> "object", members |-> [k \in DOMAIN m |-> JsonValue(m[k])]]

\* texts that are not the encoding of a mapping
MalformedText == [kind |-> "malformed"]
ArrayText == [kind |-> "array"]

\* json.loads raises JSONDecodeError on a malformed text
JsonDecodes(text) == text.kind # "malformed"

\* json.loads(text) of a JSON object
json_loads(text) == [k \in DOMAIN text.members |-> PyValue(text.members[k])]

\* ---------------------------------------------------------- ZMQ sockets
\* A socket: its CONFLATE option, and the pipe that bind()/connect() made.
\* libzmq builds the pipe with the options the socket has when bind() or
\* connect() is called; an option set afterwards does not change the pipe.
NoSocket == [state |-> "unset", conflate |-> FALSE, attached |-> FALSE,
             pipe_conflate |-> FALSE, q |-> <<>>]

\* context.socket(...)
zmq_socket == [state |-> "open", conflate |-> FALSE, attached |-> FALSE,
               pipe_conflate |-> FALSE, q |-> <<>>]

\* socket.setsockopt(zmq.CONFLATE, 1)
setsockopt_conflate(s) == [s EXCEPT !.conflate = TRUE]

\* socket.bind(...) / socket.connect(...)
zmq_attach(s) == [s EXCEPT !.attached = TRUE, !.pipe_conflate = s.conflate]

\* socket.close()
zmq_close(s) == [s EXCEPT !.state = "closed", !.q = <<>>]

\* a message entering a pipe: a conflating pipe keeps only the newest
PipePut(s, m) ==
    IF s.pipe_conflate THEN [s EXCEPT !.q = <<m>>]
    ELSE [s EXCEPT !.q = Append(@, m)]

\* a pipe that can take one more message
PipeHasRoom(s) == s.pipe_conflate \/ Len(s.q) < MaxQueue

\* the message a receive takes: the head of the pipe
PipeTake(s) == [s EXCEPT !.q = Tail(@)]


\* ------------------------------------------------------------ observations
\* what the driver's get_observation() returns: the joint positions, and
\* (with a camera configured) a frame that json.dumps cannot encode
PyFrame == [t |-> "ndarray", v |-> 0]

JointObs == [k \in PiperMotorsFt |-> PyFloat(0)]

CameraObs == [k \in PiperMotorsFt \cup {"front"} |->
                 IF k = "front" THEN PyFrame ELSE PyFloat(0)]

ObsMaps == {JointObs, CameraObs}

\* no observation has been read in this iteration
NoObs == [k \in {} |-> PyFrame]

\* str(value)
PyStr(x) == [t |-> "str", v |-> x.t]

\* a copy that leaves out the values json.dumps cannot encode
SerializableObservationDrop(obs) ==
    [k \in {j \in DOMAIN obs : JsonEncodable(obs[j])} |-> obs[k]]

\* the host's serializable copy of an observation
SerializableObservation(obs) ==
    [k \in DOMAIN obs |-> IF JsonEncodable(obs[k]) THEN obs[k] ELSE PyStr(obs[k])]

\* --------------------------------------------------- Piper driver values
\* the default of action.get(key, 0)
PyInt(v) == [t |-> "int", v |-> v]

\* joint_i.pos for the i-th entry of the position list
JointKeys ==
    <<"joint_0.pos", "joint_1.pos", "joint_2.pos", "joint_3.pos",
      "joint_4.pos", "joint_5.pos", "joint_6.pos">>

JointNo(k) == CHOOSE i \in 1..7 : JointKeys[i] = k

\* sdk.get_status(): a position under each joint_i.pos, each joint at a
\* position of its own
Status(v) == [k \in PiperMotorsFt |-> PyFloat(JointNo(k) + v)]

PiperStatuses == {Status(v) : v \in 0..MaxVal}

\* an action that names joint 0 by both of its keys, with different values
OverlapAction(v) ==
    [k \in {"shoulder_pan.pos", "joint_0.pos", "joint_3.pos"} |->
        IF k = "shoulder_pan.pos" THEN PyFloat(v) ELSE PyFloat(v + 1)]

\* the actions given to Piper.send_action
PiperActions ==
    ActionMaps \cup {OverlapAction(v) : v \in Vals} \cup PiperStatuses

\* action.get(key, default)
Get(action, key, default) ==
    IF key \in DOMAIN action THEN action[key] ELSE default

\* a position list that looks at the joint key first
SendActionPositionsJointFirst(action) ==
    <<Get(action, "joint_0.pos", Get(action, "shoulder_pan.pos", PyInt(0))),
      Get(action, "joint_1.pos", Get(action, "shoulder_lift.pos", PyInt(0))),
      Get(action, "joint_2.pos", Get(action, "elbow_flex.pos", PyInt(0))),
      Get(action, "joint_3.pos", PyInt(0)),
      Get(action, "joint_4.pos", Get(action, "wrist_flex.pos", PyInt(0))),
      Get(action, "joint_5.pos", Get(action, "wrist_roll.pos", PyInt(0))),
      Get(action, "joint_6.pos", Get(action, "gripper.pos", PyInt(0)))>>

\* the list `positions` of Piper.send_action
SendActionPositions(action) ==
    <<Get(action, "shoulder_pan.pos", Get(action, "joint_0.pos", PyInt(0))),
      Get(action, "shoulder_lift.pos", Get(action, "joint_1.pos", PyInt(0))),
      Get(action, "elbow_flex.pos", Get(action, "joint_2.pos", PyInt(0))),
      Get(action, "joint_3.pos", PyInt(0)),
      Get(action, "wrist_flex.pos", Get(action, "joint_4.pos", PyInt(0))),
      Get(action, "wrist_roll.pos", Get(action, "joint_5.pos", PyInt(0))),
      Get(action, "gripper.pos", Get(action, "joint_6.pos", PyInt(0)))>>

\* ---------------------------------------------- teleoperation script values
\* the longest configured teleop_time_s, and how long a run is followed
MaxDuration == 2
TeleopHorizon == MaxDuration + 2

\* cfg.teleop_time_s: None, or a time in loop periods
NoDuration == [given |-> FALSE]
TeleopDurations ==
    {NoDuration} \cup {[given |-> TRUE, periods |-> n] : n \in 1..MaxDuration}

\* {}: a teleoperator with no data
EmptyAction == [k \in {} |-> PyFloat(0)]

\* ------------------------------------------------------------------ state
VARIABLES
    variant,                \* which host runs
    pc,                     \* position of the host: recv, watchdog, observe,
                            \* sleep, finally, done
    perf,                   \* time.perf_counter()
    wall,                   \* time.time()
    jumps,                  \* forward steps of the wall clock so far
    loop_start_time,        \* host: loop_start_time
    last_cmd_time,          \* host: last_cmd_time
    watchdog_active,        \* host: watchdog_active
    first_command_received, \* bimanual host: first_command_received
    host_cmd_sock,          \* host.zmq_cmd_socket (PULL, bound)
    host_obs_sock,          \* host.zmq_observation_socket (PUSH, bound)
    host_ctx,               \* host.zmq_context: open, term
    rx,                     \* what this iteration's receive did
    push,                   \* what this iteration's observation send did
    last_observation,       \* host: last_observation, what the driver returned
    log,                    \* calls the host made on the robot driver
    exit_cause,             \* why the host loop was left
    client_pc,              \* position of the client: idle, polling
    client_connected,       \* client._is_connected
    client_ctx,             \* client.zmq_context: unset, open, term
    client_cmd_sock,        \* client.zmq_cmd_socket (PUSH, connected)
    client_obs_sock,        \* client.zmq_observation_socket (PULL, connected)
    obs_peer,               \* a PULL peer is connected to the observation port
    client_ret,             \* outcome of the client's last call
    client_made,            \* contexts the client created, and those it lost
    piper_connected,        \* Piper._is_connected
    piper_sdk,              \* Piper.sdk: handles made, and whether one is open
    piper_status,           \* what sdk.get_status() returns
    piper_cmd,              \* the positions last given to sdk.set_joint_positions
    piper_ret,              \* outcome of the last call on the Piper driver
    leader_conn,            \* is_connected of the leader's left and right arm
    leader_action,          \* the arms' actions and what get_action made of them
    leader_feedback,        \* the feedback sent since the action was read, and
                            \* what each arm was given
    leader_ret,             \* outcome of the last call on the bimanual leader
    tel_pc,                 \* where the teleoperation script stands
    tel_duration,           \* cfg.teleop_time_s
    tel_elapsed,            \* time.perf_counter() - start, in loop periods
    tel_action,             \* the action last read from the teleoperator
    tel_calls,              \* disconnect() calls made by the script's cleanup
    tel_exit                \* how teleop_loop was left

hostvars == <<variant, pc, perf, wall, jumps, loop_start_time, last_cmd_time,
              watchdog_active, first_command_received, host_ctx, rx, push,
              last_observation,
              log, exit_cause>>
clientvars == <<client_pc, client_connected, client_ctx, client_ret, client_made>>
sockvars == <<host_cmd_sock, host_obs_sock, client_cmd_sock, client_obs_sock,
              obs_peer>>
pipervars == <<piper_connected, piper_sdk, piper_status, piper_cmd, piper_ret>>
leadervars == <<leader_conn, leader_action, leader_feedback, leader_ret>>
telvars == <<tel_pc, tel_duration, tel_elapsed, tel_action, tel_calls, tel_exit>>
devvars == <<pipervars, leadervars, telvars>>
vars == <<hostvars, devvars, clientvars, sockvars>>

\* the arms whose stop() the watchdog calls
Arms(v) == IF v = "single" THEN {"arm"} ELSE {"left", "right"}

\* PiperHost.__init__ / BimanualPiperHost.__init__: CONFLATE is set before bind
HostSocketInit == zmq_attach(setsockopt_conflate(zmq_socket))

\* state after robot.connect(), the host's construction and the lines before
\* the loop; the client has been constructed and not yet connected
Init ==
    /\ variant \in Variants
    /\ pc = "recv"
    /\ perf = 0
    /\ wall = 0
    /\ jumps = 0
    /\ loop_start_time = 0
    /\ last_cmd_time = 0
    /\ watchdog_active = FALSE
    /\ first_command_received = FALSE
    /\ host_cmd_sock = HostSocketInit
    /\ host_obs_sock = HostSocketInit
    /\ host_ctx = "open"
    /\ rx = [outcome |-> "none"]
    /\ push = "none"
    /\ last_observation = NoObs
    /\ log = [connected |-> TRUE,
              received |-> FALSE,
              stops |-> [a \in Arms(variant) |-> 0],
              recovered |-> FALSE,
              disconnects |-> 0]
    /\ exit_cause = "none"
    /\ client_pc = "idle"
    /\ client_connected = FALSE
    /\ client_ctx = "unset"
    /\ client_cmd_sock = NoSocket
    /\ client_obs_sock = NoSocket
    /\ obs_peer = FALSE
    /\ client_ret = [call |-> "none"]
    /\ client_made = [contexts |-> 0, lost |-> 0]
    /\ piper_connected = FALSE
    /\ piper_sdk = [made |-> 0, open |-> FALSE]
    /\ piper_status = Status(0)
    /\ piper_cmd = <<>>
    /\ piper_ret = [call |-> "none"]
    /\ leader_conn = [left |-> FALSE, right |-> FALSE]
    /\ leader_action = [left |-> <<>>, right |-> <<>>, combined |-> <<>>]
    /\ leader_feedback = [sent |-> <<>>, left |-> <<>>, right |-> <<>>]
    /\ leader_ret = [call |-> "none"]
    /\ tel_pc = "start"
    /\ tel_duration = NoDuration
    /\ tel_elapsed = 0
    /\ tel_action = EmptyAction
    /\ tel_calls = [teleop |-> 0, robot |-> 0]
    /\ tel_exit = "none"


\* ---------------------------------------------------------------- clocks
\* 1 / host.max_loop_freq_hz
Period == UnitsPerSecond \div max_loop_freq_hz

\* the time a working step of the loop may take
Delays == {k * Period : k \in 0..MaxDelay}

\* the model follows the host loop until its clock reaches the horizon:
\* the configured run duration and one more step
Horizon == connection_time_s * UnitsPerSecond + Period

\* a step of the loop takes d units
StepTime(d) == d = 0 \/ perf + d <= Horizon

Advance(d) == perf' = perf + d /\ wall' = wall + d

\* the wall clock steps forward by more than the bimanual threshold
StallUnits == BimanualWatchdogS * UnitsPerSecond + 1

InLoop == pc \in {"recv", "watchdog", "observe", "sleep"}

ClockJump ==
    /\ InLoop
    /\ jumps < MaxJumps
    /\ jumps' = jumps + 1
    /\ wall' = wall + StallUnits
    /\ UNCHANGED <<devvars, variant, pc, perf, loop_start_time, last_cmd_time,
                   watchdog_active, first_command_received, host_ctx, rx,
                   push, last_observation, log, exit_cause, clientvars, sockvars>>

\* the loop is left for the finally clause: the locals of its body are dead
NoRx == [outcome |-> "none"]

LeaveLoop(cause) ==
    /\ pc' = "finally"
    /\ exit_cause' = cause
    /\ rx' = NoRx
    /\ push' = "none"
    /\ last_observation' = NoObs
    /\ loop_start_time' = 0

\* ---------------------------------------------------- host: receive step
\* single-arm host: {k: v for k, v in data.items() if k in robot.action_space.keys()}
FilterAction(data) == [k \in DOMAIN data \cap ActionSpaceKeys |-> data[k]]

\* the mapping handed to robot.send_action
ForwardedAction(v, data) == IF v = "single" THEN FilterAction(data) ELSE data

\* what the try block does with a received text; ok: send_action did not raise
CommandOutcome(text, ok) ==
    IF ~JsonDecodes(text) THEN "decode_failed"
    ELSE IF text.kind # "object" THEN "error"
    ELSE IF ok THEN "applied" ELSE "error"

\* a receive step that never touches the watchdog
WatchdogResetNever(v, outcome) == FALSE

\* whether the iteration sets last_cmd_time and clears watchdog_active:
\* the single-arm host after send_action returned, the bimanual host as
\* soon as recv_string returned
WatchdogReset(v, outcome) ==
    IF v = "single" THEN outcome = "applied" ELSE outcome # "absent"

\* an except clause that ends the iteration (continue) on a parse failure
AfterReceiveSkip(outcome) == IF outcome = "decode_failed" THEN "sleep" ELSE "watchdog"

\* where the loop goes after the except clauses of the receive step
AfterReceive(outcome) == "watchdog"

\* a recv_string() without the flag: it waits until a message is there
RecvReturnsBlocking(s) == s.q # <<>>

\* recv_string(zmq.NOBLOCK) returns a message or raises zmq.Again at once,
\* whatever the pipe holds
RecvReturns(s) == TRUE

HostRecvStep(D) ==
    /\ pc = "recv"
    /\ RecvReturns(host_cmd_sock)
    /\ \E d \in D, ok \in BOOLEAN :
        /\ StepTime(d)
        /\ LET got == host_cmd_sock.q # <<>>
               m == Head(host_cmd_sock.q)
               outcome == IF got THEN CommandOutcome(m, ok) ELSE "absent"
               called == got /\ m.kind = "object"
           IN  /\ (~called => ok)
               /\ host_cmd_sock' = IF got THEN PipeTake(host_cmd_sock) ELSE host_cmd_sock
               /\ rx' = IF ~got THEN [outcome |-> "absent"]
                        ELSE IF called
                        THEN [outcome |-> outcome, msg |-> m,
                              behind |-> Len(host_cmd_sock.q) - 1,
                              action |-> ForwardedAction(variant, json_loads(m))]
                        ELSE [outcome |-> outcome, msg |-> m,
                              behind |-> Len(host_cmd_sock.q) - 1]
               /\ first_command_received' =
                      IF variant = "bimanual" /\ got THEN TRUE ELSE first_command_received
               /\ last_cmd_time' =
                      IF WatchdogReset(variant, outcome) THEN wall ELSE last_cmd_time
               /\ watchdog_active' =
                      IF WatchdogReset(variant, outcome) THEN FALSE ELSE watchdog_active
               /\ log' = [log EXCEPT
                            !.received = @ \/ got,
                            !.recovered = @ \/ (watchdog_active
                                                 /\ WatchdogReset(variant, outcome)),
                            !.stops = IF WatchdogReset(variant, outcome)
                                      THEN [a \in Arms(variant) |-> 0] ELSE @]
               /\ pc' = AfterReceive(outcome)
        /\ loop_start_time' = wall
        /\ push' = "none"
        /\ UNCHANGED last_observation
        /\ Advance(d)
    /\ UNCHANGED <<devvars, variant, jumps, host_ctx, exit_cause, host_obs_sock,
                   client_cmd_sock, client_obs_sock, obs_peer, clientvars>>

\* --------------------------------------------------- host: watchdog step
\* a threshold in milliseconds compared with a time in seconds
IsStaleMs(v, now, last) ==
    IF v = "single"
    THEN now - last > watchdog_timeout_ms * UnitsPerSecond
    ELSE now - last > BimanualWatchdogS * UnitsPerSecond

\* now - last_cmd_time > threshold
IsStale(v, now, last) ==
    IF v = "single"
    THEN now - last > (watchdog_timeout_ms * UnitsPerSecond) \div 1000
    ELSE now - last > BimanualWatchdogS * UnitsPerSecond

\* a watchdog that does not look at watchdog_active
WatchdogFiresUnlatched(v, now, last, active, first) ==
    /\ v = "bimanual" => first
    /\ IsStale(v, now, last)

\* the condition of the watchdog's if statement
WatchdogFires(v, now, last, active, first) ==
    /\ v = "bimanual" => first
    /\ IsStale(v, now, last)
    /\ ~active

\* the arms whose stop() is called when the stop() of arm `fail` raises
\* (the bimanual host stops the left arm, then the right arm)
Stopped(v, fail) == IF fail = "left" THEN {"left"} ELSE Arms(v)

HostWatchdogStep(D) ==
    /\ pc = "watchdog"
    /\ \E d \in D, fail \in {"none"} \cup Arms(variant) :
        /\ StepTime(d)
        /\ IF WatchdogFires(variant, wall, last_cmd_time, watchdog_active,
                            first_command_received)
           THEN /\ watchdog_active' = TRUE
                /\ log' = [log EXCEPT !.stops =
                             [a \in Arms(variant) |->
                                IF a \in Stopped(variant, fail) THEN @[a] + 1 ELSE @[a]]]
                /\ IF fail = "none"
                   THEN /\ pc' = "observe"
                        /\ UNCHANGED <<exit_cause, rx, push, last_observation,
                                       loop_start_time>>
                   ELSE LeaveLoop("exception")
           ELSE /\ fail = "none"
                /\ pc' = "observe"
                /\ UNCHANGED <<watchdog_active, log, exit_cause, rx, push,
                               last_observation,
                               loop_start_time>>
        /\ Advance(d)
    /\ UNCHANGED <<devvars, variant, jumps, last_cmd_time, first_command_received,
                   host_ctx, clientvars, sockvars>>


\* ---------------------------------------------------- host: observe step
\* send_string(..., flags=zmq.NOBLOCK) on a PUSH socket raises zmq.Again
\* when no peer is connected to it
PeerConnected == obs_peer

\* Obs: the observations the driver can return; get: what
\* robot.get_observation() returns; raise: it raises instead;
\* zerr: send_string raises an error other than zmq.Again
HostObserveStep(D, Obs) ==
    /\ pc = "observe"
    /\ \E d \in D, get \in Obs, raise \in BOOLEAN, zerr \in BOOLEAN :
        /\ StepTime(d)
        /\ IF raise
           THEN /\ ~zerr
                /\ LeaveLoop("exception")
                /\ UNCHANGED <<host_obs_sock, client_obs_sock>>
           ELSE LET text == json_dumps(SerializableObservation(get))
                IN  IF ~PeerConnected
                    THEN /\ ~zerr
                         /\ push' = "dropped"
                         /\ last_observation' = get
                         /\ pc' = "sleep"
                         /\ UNCHANGED <<exit_cause, rx, loop_start_time,
                                        host_obs_sock, client_obs_sock>>
                    ELSE IF zerr
                    THEN /\ LeaveLoop("exception")
                         /\ UNCHANGED <<host_obs_sock, client_obs_sock>>
                    ELSE /\ push' = "sent"
                         /\ last_observation' = get
                         /\ pc' = "sleep"
                         /\ host_obs_sock' = PipePut(host_obs_sock, text)
                         /\ UNCHANGED <<exit_cause, rx, loop_start_time,
                                        client_obs_sock>>
        /\ Advance(d)
    /\ UNCHANGED <<devvars, variant, jumps, last_cmd_time, watchdog_active,
                   first_command_received, host_ctx, log, host_cmd_sock,
                   client_cmd_sock, obs_peer, clientvars>>

\* ------------------------------------------------------ host: pacing step
Max(a, b) == IF a >= b THEN a ELSE b

\* a sleep of one period whatever the work took
SleepTimeFixed(elapsed) == Period

\* max(1 / host.max_loop_freq_hz - elapsed, 0)
SleepTime(elapsed) == Max(Period - elapsed, 0)

\* a loop without the duration test
LoopForever(v, duration) == TRUE

\* the loop condition: the single-arm host runs while duration is below
\* connection_time_s, the bimanual host runs forever
LoopContinues(v, duration) ==
    v = "bimanual" \/ duration < connection_time_s * UnitsPerSecond

\* H: the horizon up to which the loop is followed into its next iteration
HostSleepStep(H) ==
    /\ pc = "sleep"
    /\ LET s == SleepTime(wall - loop_start_time)
       IN  /\ LoopContinues(variant, perf + s) => perf + s <= H
           /\ Advance(s)
           /\ IF LoopContinues(variant, perf + s)
              THEN /\ pc' = "recv"
                   \* msg, data, action and last_observation are not read
                   \* again before the next iteration assigns them
                   /\ last_observation' = NoObs
                   /\ rx' = NoRx
                   /\ UNCHANGED <<exit_cause, push, loop_start_time>>
              ELSE LeaveLoop("duration")
    /\ UNCHANGED <<devvars, variant, jumps, last_cmd_time, watchdog_active,
                   first_command_received, host_ctx, log, clientvars, sockvars>>

\* ------------------------------------------------------- host: interrupt
\* KeyboardInterrupt inside the try block
HostInterrupt ==
    /\ InLoop
    /\ LeaveLoop("interrupt")
    /\ UNCHANGED <<devvars, variant, perf, wall, jumps, last_cmd_time, watchdog_active,
                   first_command_received, host_ctx, log, clientvars, sockvars>>

\* --------------------------------------------------------- host: cleanup
\* the finally clause: robot.disconnect(), then host.disconnect();
\* ok: robot.disconnect() did not raise
HostFinally ==
    /\ pc = "finally"
    /\ \E ok \in BOOLEAN :
        /\ log' = [log EXCEPT !.disconnects = @ + 1,
                              !.connected = IF ok THEN FALSE ELSE @]
        /\ IF ok
           THEN /\ host_obs_sock' = zmq_close(host_obs_sock)
                /\ host_cmd_sock' = zmq_close(host_cmd_sock)
                /\ host_ctx' = "term"
           ELSE UNCHANGED <<host_obs_sock, host_cmd_sock, host_ctx>>
    /\ pc' = "done"
    /\ UNCHANGED <<devvars, variant, perf, wall, jumps, loop_start_time, last_cmd_time,
                   watchdog_active, first_command_received, rx, push,
                   last_observation, exit_cause,
                   client_cmd_sock, client_obs_sock, obs_peer, clientvars>>


\* ----------------------------------------------------------------- client
\* PiperClient.connect up to the poll: the guard, then the context and the
\* two sockets; each socket is connected first and CONFLATE is set after
ClientSocketInit == setsockopt_conflate(zmq_attach(zmq_socket))

\* a connect() without the guard
ConnectNeverRefused(connected) == FALSE

\* the guard of connect(): raise DeviceAlreadyConnectedError
ConnectRefused(connected) == connected

ClientConnect ==
    /\ client_pc = "idle"
    /\ IF ConnectRefused(client_connected)
       THEN /\ client_ret' = [call |-> "connect", result |-> "AlreadyConnected"]
            /\ UNCHANGED <<client_pc, client_connected, client_ctx, client_made,
                           client_cmd_sock, client_obs_sock, obs_peer>>
       ELSE /\ client_made.contexts < MaxConnects
            /\ client_made' = [contexts |-> client_made.contexts + 1,
                               lost |-> client_made.lost
                                          + (IF client_ctx = "open" THEN 1 ELSE 0)]
            /\ client_ctx' = "open"
            /\ client_cmd_sock' = ClientSocketInit
            /\ client_obs_sock' = ClientSocketInit
            /\ client_pc' = "polling"
            /\ client_ret' = [call |-> "connect", result |-> "polling"]
            /\ obs_peer' = TRUE
            /\ UNCHANGED client_connected
    /\ UNCHANGED <<hostvars, devvars, host_cmd_sock, host_obs_sock>>

\* a poll without a timeout: it waits until a message is there
PollForever(s) == IF s.q # <<>> THEN "POLLIN" ELSE "waiting"

\* poller.poll(connect_timeout_s * 1000) returns POLLIN for the observation
\* socket when a message is in its pipe, and nothing when the time is up
PollResult(s) == IF s.q # <<>> THEN "POLLIN" ELSE "timeout"

ClientPollReturn ==
    /\ client_pc = "polling"
    /\ PollResult(client_obs_sock) # "waiting"
    /\ client_pc' = "idle"
    /\ IF PollResult(client_obs_sock) = "POLLIN"
       THEN /\ client_connected' = TRUE
            /\ client_ret' = [call |-> "connect", result |-> "ok"]
       ELSE /\ client_connected' = client_connected
            /\ client_ret' = [call |-> "connect", result |-> "Timeout"]
    /\ UNCHANGED <<client_ctx, client_made, hostvars, devvars, sockvars>>

\* PiperClient.disconnect: before any connect() the socket attributes do not
\* exist (AttributeError)
ClientDisconnect ==
    /\ client_pc = "idle"
    /\ IF client_obs_sock.state = "unset"
       THEN /\ client_ret' = [call |-> "disconnect", result |-> "AttributeError"]
            /\ UNCHANGED <<client_connected, client_ctx, client_cmd_sock,
                           client_obs_sock, host_obs_sock, obs_peer>>
       ELSE /\ client_obs_sock' = zmq_close(client_obs_sock)
            /\ client_cmd_sock' = zmq_close(client_cmd_sock)
            /\ client_ctx' = "term"
            /\ client_connected' = FALSE
            /\ client_ret' = [call |-> "disconnect", result |-> "ok"]
            \* the host's pipe to this peer goes with the peer
            /\ host_obs_sock' = [host_obs_sock EXCEPT !.q = <<>>]
            /\ obs_peer' = FALSE
    /\ UNCHANGED <<client_pc, client_made, hostvars, devvars, host_cmd_sock>>

\* a send_action that returns the keys the driver knows
SendActionReturnFiltered(action) == FilterAction(action)

\* PiperClient.send_action: return action
SendActionReturn(action) == action

\* PiperClient.send_action: a blocking send_string, then return action
ClientSendAction ==
    /\ client_pc = "idle"
    /\ \E a \in ActionMaps :
        IF client_cmd_sock.state = "unset"
        THEN /\ client_ret' = [call |-> "send_action", result |-> "AttributeError"]
             /\ UNCHANGED client_cmd_sock
        ELSE IF client_cmd_sock.state = "closed"
        THEN /\ client_ret' = [call |-> "send_action", result |-> "ZMQError"]
             /\ UNCHANGED client_cmd_sock
        ELSE /\ PipeHasRoom(client_cmd_sock)
             /\ client_cmd_sock' = PipePut(client_cmd_sock, json_dumps(a))
             /\ client_ret' = [call |-> "send_action", result |-> "ok",
                               value |-> SendActionReturn(a)]
    /\ UNCHANGED <<client_pc, client_connected, client_ctx, client_made, hostvars, devvars,
                   host_cmd_sock, host_obs_sock, client_obs_sock, obs_peer>>

\* PiperClient.get_observation: a blocking recv_string, then json.loads
ClientGetObservation ==
    /\ client_pc = "idle"
    /\ IF client_obs_sock.state = "unset"
       THEN /\ client_ret' = [call |-> "get_observation", result |-> "AttributeError"]
            /\ UNCHANGED client_obs_sock
       ELSE IF client_obs_sock.state = "closed"
       THEN /\ client_ret' = [call |-> "get_observation", result |-> "ZMQError"]
            /\ UNCHANGED client_obs_sock
       ELSE /\ client_obs_sock.q # <<>>
            /\ client_obs_sock' = PipeTake(client_obs_sock)
            /\ client_ret' = [call |-> "get_observation", result |-> "ok",
                              value |-> json_loads(Head(client_obs_sock.q)),
                              behind |-> Len(client_obs_sock.q) - 1]
    /\ UNCHANGED <<client_pc, client_connected, client_ctx, client_made, hostvars, devvars,
                   host_cmd_sock, host_obs_sock, client_cmd_sock, obs_peer>>

\* ---------------------------------------------------------------- network
\* the I/O threads move a command from the client's pipe to the host's;
\* as the host looks at its pipe only in the receive step, the delivery is
\* placed just before it
NetCmd ==
    /\ client_cmd_sock.state = "open" /\ client_cmd_sock.q # <<>>
    /\ pc = "recv"
    /\ host_cmd_sock.state = "open" /\ PipeHasRoom(host_cmd_sock)
    /\ host_cmd_sock' = PipePut(host_cmd_sock, Head(client_cmd_sock.q))
    /\ client_cmd_sock' = PipeTake(client_cmd_sock)
    /\ UNCHANGED <<hostvars, devvars, clientvars, host_obs_sock, client_obs_sock, obs_peer>>

\* and an observation from the host's pipe to the client's
NetObs ==
    /\ host_obs_sock.state = "open" /\ host_obs_sock.q # <<>>
    /\ client_obs_sock.state = "open" /\ PipeHasRoom(client_obs_sock)
    /\ client_obs_sock' = PipePut(client_obs_sock, Head(host_obs_sock.q))
    /\ host_obs_sock' = PipeTake(host_obs_sock)
    /\ UNCHANGED <<hostvars, devvars, clientvars, host_cmd_sock, client_cmd_sock, obs_peer>>

\* ------------------------------------------------------------ other peers
\* the texts that reach the command port: encoded mappings, a text that is
\* not JSON ("{not json"), and JSON that is not an object ("[1]")
CommandTexts == {json_dumps(a) : a \in ActionMaps} \cup {MalformedText, ArrayText}

\* a PUSH peer's message reaches the host's command socket.  The host
\* looks at the socket only in its receive step and the pipe keeps the
\* newest message, so an arrival at any other moment has the effect of one
\* just before the receive, where the model places it.
CommandArrives ==
    /\ host_cmd_sock.state = "open"
    /\ pc = "recv"
    /\ \E text \in CommandTexts : host_cmd_sock' = PipePut(host_cmd_sock, text)
    /\ UNCHANGED <<hostvars, devvars, clientvars, host_obs_sock, client_cmd_sock,
                   client_obs_sock, obs_peer>>

\* a PULL peer connects to the observation port.  The host meets its peer
\* only in the send of the observe step, so the model places the coming
\* and going of the peer just before it.
ObserverAttach ==
    /\ host_obs_sock.state = "open"
    /\ pc = "observe"
    /\ ~obs_peer
    /\ obs_peer' = TRUE
    /\ UNCHANGED <<hostvars, devvars, clientvars, host_cmd_sock, host_obs_sock,
                   client_cmd_sock, client_obs_sock>>

\* and goes away, and the host's pipe to it with it
ObserverDetach ==
    /\ host_obs_sock.state = "open"
    /\ pc = "observe"
    /\ obs_peer
    /\ obs_peer' = FALSE
    /\ host_obs_sock' = [host_obs_sock EXCEPT !.q = <<>>]
    /\ UNCHANGED <<hostvars, devvars, clientvars, host_cmd_sock, client_cmd_sock,
                   client_obs_sock>>

\* ----------------------------------------------------------- Piper driver
\* the other variables of the model
restvars == <<hostvars, clientvars, sockvars>>

\* Piper.connect; sdk_ok: PiperSDKInterface(port) did not raise;
\* cam_ok: no cam.connect() raised
PiperConnect ==
    /\ IF piper_connected
       THEN /\ piper_ret' = [call |-> "connect", result |-> "AlreadyConnected",
                             sdk |-> FALSE]
            /\ UNCHANGED <<piper_connected, piper_sdk>>
       ELSE \E sdk_ok \in BOOLEAN, cam_ok \in BOOLEAN :
              IF ~sdk_ok
              THEN /\ cam_ok
                   /\ piper_ret' = [call |-> "connect", result |-> "error",
                                    sdk |-> FALSE]
                   /\ UNCHANGED <<piper_connected, piper_sdk>>
              ELSE /\ piper_sdk.made < MaxConnects
                   /\ piper_sdk' = [made |-> piper_sdk.made + 1, open |-> TRUE]
                   /\ piper_connected' = TRUE
                   /\ piper_ret' = [call |-> "connect",
                                    result |-> IF cam_ok THEN "ok" ELSE "error",
                                    sdk |-> FALSE]
    /\ UNCHANGED <<piper_status, piper_cmd, restvars, leadervars, telvars>>

\* Piper.disconnect; sdk_ok: sdk.disconnect() did not raise;
\* cam_ok: no cam.disconnect() raised
PiperDisconnect ==
    /\ IF ~piper_connected
       THEN /\ piper_ret' = [call |-> "disconnect", result |-> "ok", sdk |-> FALSE]
            /\ UNCHANGED <<piper_connected, piper_sdk>>
       ELSE \E sdk_ok \in BOOLEAN, cam_ok \in BOOLEAN :
              IF ~sdk_ok
              THEN /\ cam_ok
                   /\ piper_ret' = [call |-> "disconnect", result |-> "error",
                                    sdk |-> TRUE]
                   /\ UNCHANGED <<piper_connected, piper_sdk>>
              ELSE /\ piper_sdk' = [piper_sdk EXCEPT !.open = FALSE]
                   /\ piper_connected' = ~cam_ok
                   /\ piper_ret' = [call |-> "disconnect",
                                    result |-> IF cam_ok THEN "ok" ELSE "error",
                                    sdk |-> TRUE]
    /\ UNCHANGED <<piper_status, piper_cmd, restvars, leadervars, telvars>>

\* Piper.get_observation; ok: neither the SDK nor a camera raised
PiperGetObservation ==
    /\ IF ~piper_connected
       THEN piper_ret' = [call |-> "get_observation", result |-> "NotConnected",
                          sdk |-> FALSE]
       ELSE \E ok \in BOOLEAN :
              piper_ret' = IF ok
                           THEN [call |-> "get_observation", result |-> "ok",
                                 sdk |-> TRUE, value |-> piper_status]
                           ELSE [call |-> "get_observation", result |-> "error",
                                 sdk |-> TRUE]
    /\ UNCHANGED <<piper_connected, piper_sdk, piper_status, piper_cmd, restvars, leadervars, telvars>>

\* Piper.send_action; ok: sdk.set_joint_positions did not raise
PiperSendAction ==
    /\ \E action \in PiperActions, ok \in BOOLEAN :
        IF ~piper_connected
        THEN /\ ok
             /\ piper_ret' = [call |-> "send_action", result |-> "NotConnected",
                              sdk |-> FALSE]
             /\ UNCHANGED piper_cmd
        ELSE IF ok
        THEN /\ piper_cmd' = SendActionPositions(action)
             /\ piper_ret' = [call |-> "send_action", result |-> "ok",
                              sdk |-> TRUE, value |-> action]
        ELSE /\ piper_ret' = [call |-> "send_action", result |-> "error",
                              sdk |-> TRUE]
             /\ UNCHANGED piper_cmd
    /\ UNCHANGED <<piper_connected, piper_sdk, piper_status, restvars, leadervars, telvars>>

\* Piper.stop: current_pos = sdk.get_status(); send_action(current_pos);
\* ok: the SDK did not raise
PiperStop ==
    /\ \E ok \in BOOLEAN :
        IF ~piper_connected
        THEN /\ ok
             /\ piper_ret' = [call |-> "stop", result |-> "ok", sdk |-> FALSE]
             /\ UNCHANGED piper_cmd
        ELSE IF ok
        THEN /\ piper_cmd' = SendActionPositions(piper_status)
             /\ piper_ret' = [call |-> "stop", result |-> "ok", sdk |-> TRUE]
        ELSE /\ piper_ret' = [call |-> "stop", result |-> "error", sdk |-> TRUE]
             /\ UNCHANGED piper_cmd
    /\ UNCHANGED <<piper_connected, piper_sdk, piper_status, restvars, leadervars, telvars>>

\* the arm moves: the SDK reports other positions
PiperMoves ==
    /\ piper_sdk.open
    /\ \E st \in PiperStatuses : piper_status' = st
    /\ UNCHANGED <<piper_connected, piper_sdk, piper_cmd, piper_ret, restvars, leadervars, telvars>>

\* -------------------------------------------------------- bimanual leader
\* A key is the sequence of the pieces of its text, the prefixes "left_" and
\* "right_" being pieces of their own; a dict is the sequence of its
\* <<key, value>> items in insertion order.
ArmKeys ==
    {<<"gripper.pos">>, <<"left_", "gripper.pos">>, <<"right_", "gripper.pos">>}

DictKeys(d) == {d[i][1] : i \in DOMAIN d}

\* d[key]
DictGet(d, key) == d[CHOOSE i \in DOMAIN d : d[i][1] = key][2]

\* d[key] = value
DictPut(d, key, value) ==
    IF key \in DictKeys(d)
    THEN [i \in DOMAIN d |-> IF d[i][1] = key THEN <<key, value>> ELSE d[i]]
    ELSE Append(d, <<key, value>>)

\* the dict built by storing the items one after the other
RECURSIVE DictFrom(_)
DictFrom(items) ==
    IF items = <<>> THEN <<>>
    ELSE LET n == Len(items)
         IN  DictPut(DictFrom(SubSeq(items, 1, n - 1)), items[n][1], items[n][2])

\* what an arm's get_action returns: no entry, one entry, or the entries of
\* "gripper.pos" and "left_gripper.pos" in either order
ArmActions ==
    {<<>>}
    \cup {<<<<k, PyFloat(0)>>>> : k \in ArmKeys}
    \cup {<<<<ks[1], PyFloat(0)>>, <<ks[2], PyFloat(1)>>>> :
             ks \in {p \in (ArmKeys \ {<<"right_", "gripper.pos">>}) \X ArmKeys :
                       p[1] # p[2] /\ p[2] # <<"right_", "gripper.pos">>}}

\* f"{prefix}{key}"
Prefixed(prefix, key) == <<prefix>> \o key

\* k.startswith(prefix)
StartsWith(key, prefix) == key # <<>> /\ key[1] = prefix

\* k.replace(prefix, ""): every occurrence is removed
Replace(key, prefix) == SelectSeq(key, LAMBDA piece : piece # prefix)

\* combined_action of get_action
CombinedAction(left_action, right_action) ==
    DictFrom([i \in DOMAIN left_action |->
                 <<Prefixed("left_", left_action[i][1]), left_action[i][2]>>]
             \o [i \in DOMAIN right_action |->
                 <<Prefixed("right_", right_action[i][1]), right_action[i][2]>>])

\* left_feedback / right_feedback of send_feedback
ArmFeedback(feedback, prefix) ==
    LET items == SelectSeq(feedback, LAMBDA item : StartsWith(item[1], prefix))
    IN  DictFrom([i \in DOMAIN items |-> <<Replace(items[i][1], prefix), items[i][2]>>])

\* a feedback with an entry for neither arm
StrayFeedback == <<<<<<"gripper.pos">>, PyFloat(0)>>, <<<<"left_", "gripper.pos">>, PyFloat(0)>>>>

\* BimanualSO101Leader.connect; lo, ro: the arm's connect() did not raise
LeaderConnect ==
    /\ IF leader_conn.left /\ leader_conn.right
       THEN /\ leader_ret' = [call |-> "connect", result |-> "AlreadyConnected"]
            /\ UNCHANGED leader_conn
       ELSE \E lo \in BOOLEAN, ro \in BOOLEAN :
              IF ~lo
              THEN /\ ro
                   /\ leader_ret' = [call |-> "connect", result |-> "error"]
                   /\ UNCHANGED leader_conn
              ELSE /\ leader_conn' = [left |-> TRUE, right |-> leader_conn.right \/ ro]
                   /\ leader_ret' = [call |-> "connect",
                                     result |-> IF ro THEN "ok" ELSE "error"]
    /\ UNCHANGED <<leader_action, leader_feedback, restvars, pipervars, telvars>>

\* BimanualSO101Leader.disconnect; lo, ro: the arm's disconnect() did not raise
LeaderDisconnect ==
    /\ IF ~(leader_conn.left /\ leader_conn.right)
       THEN /\ leader_ret' = [call |-> "disconnect", result |-> "NotConnected"]
            /\ UNCHANGED leader_conn
       ELSE \E lo \in BOOLEAN, ro \in BOOLEAN :
              IF ~lo
              THEN /\ ro
                   /\ leader_ret' = [call |-> "disconnect", result |-> "error"]
                   /\ UNCHANGED leader_conn
              ELSE /\ leader_conn' = [left |-> FALSE, right |-> ~ro]
                   /\ leader_ret' = [call |-> "disconnect",
                                     result |-> IF ro THEN "ok" ELSE "error"]
    /\ UNCHANGED <<leader_action, leader_feedback, restvars, pipervars, telvars>>

\* BimanualSO101Leader.get_action; ok: neither arm's get_action() raised
LeaderGetAction ==
    /\ \E left_action \in ArmActions, right_action \in ArmActions, ok \in BOOLEAN :
        IF ok
        THEN /\ leader_action' = [left |-> left_action, right |-> right_action,
                                  combined |-> CombinedAction(left_action, right_action)]
             /\ leader_feedback' = [sent |-> <<>>, left |-> <<>>, right |-> <<>>]
             /\ leader_ret' = [call |-> "get_action", result |-> "ok"]
        ELSE /\ left_action = <<>> /\ right_action = <<>>
             /\ leader_ret' = [call |-> "get_action", result |-> "error"]
             /\ UNCHANGED <<leader_action, leader_feedback>>
    /\ UNCHANGED <<leader_conn, restvars, pipervars, telvars>>

\* BimanualSO101Leader.send_feedback, given the action last read or a stray
\* feedback; lo, ro: the arm's send_feedback() did not raise
LeaderSendFeedback ==
    /\ \E feedback \in {leader_action.combined, StrayFeedback},
          lo \in BOOLEAN, ro \in BOOLEAN :
        IF ~lo
        THEN /\ ro
             /\ leader_ret' = [call |-> "send_feedback", result |-> "error"]
             /\ UNCHANGED leader_feedback
        ELSE /\ leader_feedback' =
                    [sent |-> feedback,
                     left |-> ArmFeedback(feedback, "left_"),
                     right |-> IF ro THEN ArmFeedback(feedback, "right_")
                               ELSE leader_feedback.right]
             /\ leader_ret' = [call |-> "send_feedback",
                               result |-> IF ro THEN "ok" ELSE "error"]
    /\ UNCHANGED <<leader_conn, leader_action, restvars, pipervars, telvars>>

\* ---------------------------------------------------- teleoperation script
\* teleoperate up to the try statement: teleop.connect(); robot.connect();
\* then teleop_loop takes its start time
TeleoperateStart ==
    /\ tel_pc = "start"
    /\ \E duration \in TeleopDurations, teleop_ok \in BOOLEAN, robot_ok \in BOOLEAN :
        /\ tel_duration' = duration
        /\ IF teleop_ok /\ robot_ok
           THEN tel_pc' = "get_action" /\ tel_exit' = "none"
           ELSE tel_pc' = "terminated" /\ tel_exit' = "connect"
    /\ tel_elapsed' = 0
    /\ UNCHANGED <<tel_action, tel_calls, restvars, pipervars, leadervars>>

\* teleop_loop: action = teleop.get_action(); an empty action waits one
\* period in busy_wait and continues with the next iteration
TeleopGetAction ==
    /\ tel_pc = "get_action"
    /\ tel_elapsed < TeleopHorizon
    /\ \/ \E action \in ActionMaps :
            /\ tel_action' = action
            /\ tel_pc' = "send_action"
            /\ UNCHANGED <<tel_elapsed, tel_exit>>
       \/ /\ tel_action' = EmptyAction
          /\ tel_elapsed' = tel_elapsed + 1
          /\ UNCHANGED <<tel_pc, tel_exit>>
       \/ /\ tel_pc' = "finally"
          /\ tel_exit' = "exception"
          /\ UNCHANGED <<tel_action, tel_elapsed>>
    /\ UNCHANGED <<tel_duration, tel_calls, restvars, pipervars, leadervars>>

\* the test that ends teleop_loop
TeleopReturns(duration, elapsed) == duration.given /\ elapsed >= duration.periods

\* teleop_loop: robot.send_action(action), busy_wait for the rest of the
\* period (late: the iteration overran it), then the test of the duration
TeleopSendAction ==
    /\ tel_pc = "send_action"
    /\ \/ \E late \in 0..MaxDelay :
            /\ tel_elapsed' = tel_elapsed + 1 + late
            /\ IF TeleopReturns(tel_duration, tel_elapsed')
               THEN tel_pc' = "finally" /\ tel_exit' = "duration"
               ELSE tel_pc' = "get_action" /\ UNCHANGED tel_exit
       \/ /\ tel_pc' = "finally"
          /\ tel_exit' = "exception"
          /\ UNCHANGED tel_elapsed
    /\ UNCHANGED <<tel_duration, tel_action, tel_calls, restvars, pipervars, leadervars>>

\* KeyboardInterrupt inside teleop_loop: except KeyboardInterrupt: pass
TeleopInterrupt ==
    /\ tel_pc \in {"get_action", "send_action"}
    /\ tel_pc' = "finally"
    /\ tel_exit' = "interrupt"
    /\ UNCHANGED <<tel_duration, tel_elapsed, tel_action, tel_calls,
                   restvars, pipervars, leadervars>>

\* the finally clause: teleop.disconnect(); robot.disconnect();
\* teleop_ok, robot_ok: the call did not raise
TeleoperateFinally ==
    /\ tel_pc = "finally"
    /\ \E teleop_ok \in BOOLEAN, robot_ok \in BOOLEAN :
        IF teleop_ok
        THEN tel_calls' = [teleop |-> tel_calls.teleop + 1,
                           robot |-> tel_calls.robot + 1]
        ELSE /\ robot_ok
             /\ tel_calls' = [tel_calls EXCEPT !.teleop = @ + 1]
    /\ tel_pc' = "terminated"
    /\ UNCHANGED <<tel_duration, tel_elapsed, tel_action, tel_exit,
                   restvars, pipervars, leadervars>>

\* ------------------------------------------------------------------ specs
\* the three steps of an iteration: the driver and channel calls of the
\* receive and observe steps take time, the watchdog's check does not
HostRecv == HostRecvStep(Delays)
HostWatchdog == HostWatchdogStep({0})
HostObserve == HostObserveStep(Delays, ObsMaps)
HostSleep == HostSleepStep(Horizon)

\* the host loop, the clocks and the peers of its two ports
Next ==
    \/ HostRecv
    \/ HostWatchdog
    \/ HostObserve
    \/ HostSleep
    \/ HostInterrupt
    \/ HostFinally
    \/ ClockJump
    \/ CommandArrives
    \/ ObserverAttach
    \/ ObserverDetach

Spec == Init /\ [][Next]_vars

\* the single-arm pair while the host runs: PiperHost's loop over a driver
\* without cameras, paced by its sleep alone, and the PiperClient on the two
\* channels
RelayRecv == HostRecvStep({0})
RelayObserve == HostObserveStep({0}, {JointObs})
RelaySleep == HostSleepStep(RelayHorizon)

InitRelay == Init /\ variant = "single"

NextRelay ==
    \/ RelayRecv
    \/ HostWatchdog
    \/ RelayObserve
    \/ RelaySleep
    \/ ClientConnect
    \/ ClientPollReturn
    \/ ClientDisconnect
    \/ ClientSendAction
    \/ ClientGetObservation
    \/ NetCmd
    \/ NetObs

SpecRelay == InitRelay /\ [][NextRelay]_vars

\* the single-arm host as it is scheduled: main() is one thread that runs
\* the loop body statement after statement and then the finally clause, so
\* a step of it that can be taken is taken
NextTimed ==
    \/ HostRecv
    \/ HostWatchdog
    \/ HostObserve
    \/ HostSleep
    \/ HostInterrupt
    \/ HostFinally
    \/ CommandArrives

FairHost ==
    /\ WF_vars(HostRecv)
    /\ WF_vars(HostWatchdog)
    /\ WF_vars(HostObserve)
    /\ WF_vars(HostSleep)
    /\ WF_vars(HostFinally)

\* the Piper driver under any sequence of calls
NextPiper ==
    \/ PiperConnect
    \/ PiperDisconnect
    \/ PiperGetObservation
    \/ PiperSendAction
    \/ PiperStop
    \/ PiperMoves

SpecPiper == InitRelay /\ [][NextPiper]_vars

\* the bimanual leader under any sequence of calls
NextLeader ==
    \/ LeaderConnect
    \/ LeaderDisconnect
    \/ LeaderGetAction
    \/ LeaderSendFeedback

SpecLeader == InitRelay /\ [][NextLeader]_vars

\* the teleoperation script
NextTeleop ==
    \/ TeleoperateStart
    \/ TeleopGetAction
    \/ TeleopSendAction
    \/ TeleopInterrupt
    \/ TeleoperateFinally

SpecTeleop == InitRelay /\ [][NextTeleop]_vars

SpecTimed == InitRelay /\ [][NextTimed]_vars /\ FairHost


\* ----------------------------------------------------------------- claims
\* a step of the host's watchdog evaluation (not an interrupt at that place)
WatchdogStep ==
    pc = "watchdog" /\ pc' \in {"observe", "finally"} /\ exit_cause' # "interrupt"

\* C1: in both host loops each arm's stop() is called at most once between
\* two watchdog resets, and no step calls stop() while the watchdog is
\* already triggered.
C1_StopOncePerEpisode ==
    /\ [](\A a \in Arms(variant) : log.stops[a] <= 1)
    /\ [][watchdog_active => \A a \in Arms(variant) : log.stops'[a] <= log.stops[a]]_vars

\* the bimanual host, triggered in an earlier iteration, evaluates the
\* watchdog again in an iteration in which no command arrived
C1_Witness ==
    /\ variant = "bimanual"
    /\ pc = "watchdog"
    /\ watchdog_active
    /\ rx.outcome = "absent"
    /\ \A a \in Arms(variant) : log.stops[a] = 1

\* the single-arm threshold and the scenario's silence, in units
ThresholdUnits == (watchdog_timeout_ms * UnitsPerSecond) \div 1000
SilenceUnits == (600 * UnitsPerSecond) \div 1000

\* C2: single-arm host: the first watchdog evaluation that sees more than
\* watchdog_timeout_ms since last_cmd_time (the time of the last applied
\* command) calls stop(), and a triggered watchdog has called stop() exactly
\* once since then.
C2_StaleStopsExactlyOnce ==
    /\ [][(/\ variant = "single"
           /\ WatchdogStep
           /\ ~watchdog_active
           /\ wall - last_cmd_time > ThresholdUnits)
          => (watchdog_active' /\ log.stops'["arm"] = log.stops["arm"] + 1)]_vars
    /\ [](variant = "single" /\ watchdog_active => log.stops["arm"] = 1)

\* a command was applied (last_cmd_time is the time of that iteration), at
\* least 600 ms have passed without another and stop() was called once
C2_Witness ==
    /\ variant = "single"
    /\ rx.outcome = "absent"
    /\ last_cmd_time > 0
    /\ wall - last_cmd_time >= SilenceUnits
    /\ wall - last_cmd_time <= Horizon
    /\ watchdog_active
    /\ log.stops["arm"] = 1

\* C3: no host calls stop() before the first command has been received.
C3_NoStopInIdle == ~log.received => \A a \in Arms(variant) : log.stops[a] = 0


\* the four channel endpoints
Endpoints == {host_cmd_sock, host_obs_sock, client_cmd_sock, client_obs_sock}

\* C4: every endpoint holds at most one unconsumed message, and a receive
\* (the host's of a command, the client's of an observation) takes the
\* newest message its endpoint holds, leaving none behind.
C4_Conflation ==
    /\ \A s \in Endpoints : Len(s.q) <= 1
    /\ rx.outcome \notin {"none", "absent"} => rx.behind = 0
    /\ (client_ret.call = "get_observation" /\ client_ret.result = "ok")
          => client_ret.behind = 0

\* the host's iteration received the encoding of a mapping and called
\* robot.send_action
Forwarded == rx.outcome \in {"applied", "error"} /\ rx.msg.kind = "object"

\* C5: when the single-arm host receives an action whose keys are the
\* client's action features, robot.send_action is called in that iteration
\* with every key and value of the action.
C5_RelayPreservesAction ==
    \A v \in Vals :
        (variant = "single" /\ rx.outcome # "none" /\ rx.outcome # "absent"
            /\ rx.msg = json_dumps(TeleopAction(v)))
        => (Forwarded /\ rx.action = TeleopAction(v))

\* the receive step of a host iteration
ReceiveStep == pc = "recv" /\ pc' # "recv" /\ exit_cause' # "interrupt"

\* C6: an iteration that receives a text that fails to decode does not hand
\* it to the driver and goes on to the watchdog check, and when that
\* iteration reaches its sleep the observation has been read and pushed.
C6_MalformedCommandSkipped ==
    /\ [][(/\ ReceiveStep
           /\ host_cmd_sock.q # <<>>
           /\ ~JsonDecodes(Head(host_cmd_sock.q)))
          => (/\ pc' = "watchdog"
              /\ rx'.outcome = "decode_failed"
              /\ "action" \notin DOMAIN rx')]_vars
    /\ [](rx.outcome = "decode_failed" /\ pc \in {"sleep", "recv"}
            => push \in {"sent", "dropped"})

\* the iteration received "{not json" and has pushed its observation
C6_Witness ==
    /\ pc = "sleep"
    /\ rx.outcome = "decode_failed"
    /\ rx.msg = MalformedText
    /\ push = "sent"

\* C7: no exception raised by a step of an iteration ends the host loop.
C7_LoopSurvivesExceptions == exit_cause \in {"none", "duration", "interrupt"}

\* C8: when the host has terminated, robot.disconnect() was called once and
\* both sockets are closed and the context terminated.
C8_CleanupAlwaysComplete ==
    pc = "done" =>
        /\ log.disconnects = 1
        /\ host_obs_sock.state = "closed"
        /\ host_cmd_sock.state = "closed"
        /\ host_ctx = "term"

\* C9: connect() on a connected client fails with AlreadyConnected, creates
\* no context or socket and leaves the connection state and the sockets as
\* they are.
C9_ConnectTwiceRefused ==
    [][(/\ client_connected
        /\ client_pc = "idle"
        /\ client_ret'.call = "connect"
        /\ client_ret' # client_ret)
       => (/\ client_ret'.result = "AlreadyConnected"
           /\ UNCHANGED <<client_connected, client_ctx, client_made,
                          client_cmd_sock, client_obs_sock, client_pc>>)]_vars

\* a connected client was refused a second connect()
C9_Witness ==
    /\ client_connected
    /\ client_ret = [call |-> "connect", result |-> "AlreadyConnected"]
    /\ client_made.contexts = 1

\* C10: the handshake wait of connect() always ends; when it ends without
\* an observation connect() fails with the timeout and is_connected stays
\* false, and is_connected becomes true only when the wait ends with an
\* observation in the client's observation socket.
C10_HandshakeBounded ==
    /\ [](client_pc = "polling" => ENABLED ClientPollReturn)
    /\ [][(client_pc = "polling" /\ client_pc' = "idle" /\ client_obs_sock.q = <<>>)
          => (client_ret'.result = "Timeout" /\ ~client_connected')]_vars
    /\ [][(~client_connected /\ client_connected')
          => (client_pc = "polling" /\ client_obs_sock.q # <<>>)]_vars

\* a connect() has failed with the timeout
C10_Witness ==
    /\ client_pc = "idle"
    /\ client_ret = [call |-> "connect", result |-> "Timeout"]
    /\ ~client_connected


\* C11: a get_observation() call on a client whose observation socket is
\* open can always return, whether or not an observation has arrived.
C11_GetObservationNeverWaits ==
    (client_pc = "idle" /\ client_obs_sock.state = "open")
        => ENABLED ClientGetObservation

\* C12: get_observation() on a client that has never called connect()
\* fails with NotConnected.
C12_NeverConnectedIsNotConnected ==
    (client_made.contexts = 0 /\ client_ret.call = "get_observation")
        => client_ret.result = "NotConnected"

\* C13: disconnect() never fails, and a disconnect() on a client whose
\* sockets are not open (closed already, or never created) releases
\* nothing: sockets and context stay as they are.
C13_ReleaseAtMostOnce ==
    /\ [](client_ret.call = "disconnect" => client_ret.result = "ok")
    /\ [][(client_ret'.call = "disconnect" /\ client_obs_sock.state # "open")
          => UNCHANGED <<client_obs_sock, client_cmd_sock, client_ctx>>]_vars

\* a step of send_action that returned
SendStep ==
    /\ client_ret'.call = "send_action"
    /\ client_ret'.result = "ok"
    /\ \/ client_ret' # client_ret
       \/ Len(client_cmd_sock'.q) > Len(client_cmd_sock.q)

\* C14: a send_action that returns has put exactly one message, the
\* encoding of the mapping it returns, on the command socket and nothing
\* anywhere else, and the mapping it returns is the one it was given.
C14_SendActionEcho ==
    [][SendStep =>
        /\ client_ret'.value \in ActionMaps
        /\ client_cmd_sock'.q =
               Append(client_cmd_sock.q, json_dumps(client_ret'.value))
        /\ UNCHANGED <<client_obs_sock, host_cmd_sock, host_obs_sock>>]_vars

\* send_action returned the teleoperator's action and its encoding is the
\* newest message of the command socket
C14_Witness ==
    /\ client_ret.call = "send_action"
    /\ client_ret.result = "ok"
    /\ client_ret.value = TeleopAction(1)
    /\ client_cmd_sock.q # <<>>
    /\ client_cmd_sock.q[Len(client_cmd_sock.q)] = json_dumps(TeleopAction(1))


\* an observe step that read an observation from the driver
ObserveStep == pc = "observe" /\ last_observation' # NoObs

\* C15: the text the host sends decodes to a mapping with the keys of the
\* observation the driver returned, with each encodable value equal to the
\* driver's and each other value the string of the driver's; and whatever
\* the values are, the step goes on to the sleep, the text sent if a peer
\* is connected and dropped if none is.
C15_ObservationRoundTrip ==
    [][ObserveStep =>
        /\ pc' = "sleep"
        /\ push' = (IF obs_peer THEN "sent" ELSE "dropped")
        /\ push' = "sent" =>
             /\ host_obs_sock'.q # <<>>
             /\ LET obs == last_observation'
                    d == json_loads(host_obs_sock'.q[Len(host_obs_sock'.q)])
                IN  /\ DOMAIN d = DOMAIN obs
                    /\ \A k \in DOMAIN obs :
                         d[k] = IF JsonEncodable(obs[k]) THEN obs[k]
                                ELSE PyStr(obs[k])]_vars

\* the driver returned a camera frame with the joints and the host has
\* sent the observation
C15_Witness ==
    /\ pc = "sleep"
    /\ last_observation = CameraObs
    /\ push = "sent"
    /\ host_obs_sock.q # <<>>
    /\ json_loads(host_obs_sock.q[1])["front"] = PyStr(PyFrame)


\* the sleep step of a host iteration
SleepStep == pc = "sleep" /\ pc' \in {"recv", "finally"} /\ exit_cause' # "interrupt"

\* C16: the sleep of an iteration lasts max(0, 1/F - elapsed), elapsed being
\* time.time() at the sleep less the iteration's start: after work shorter
\* than 1/F the sleep ends 1/F after the iteration started, after work of
\* 1/F or more the sleep is zero; and the next iteration takes the end of
\* the sleep as its start, so that no overrun is carried over.
C16_PacingSleep ==
    /\ [][SleepStep =>
            LET elapsed == wall - loop_start_time
                slept == IF Period - elapsed > 0 THEN Period - elapsed ELSE 0
            IN  /\ perf' - perf = slept
                /\ wall' - wall = slept
                /\ elapsed < Period => wall' = loop_start_time + Period
                /\ elapsed >= Period => wall' = wall]_vars
    /\ [][ReceiveStep => loop_start_time' = wall]_vars

\* an iteration whose work took no time has slept one period, or one whose
\* work took one period has not slept
C16_Witness ==
    /\ pc = "recv"
    /\ push # "none"
    /\ perf > 0
    /\ wall - loop_start_time = Period

\* C18: no step of an iteration waits: the receive, the watchdog check and
\* the observation push can each be taken wherever the loop stands; a
\* receive on an empty socket reports ABSENT and goes on to the watchdog
\* check, and a push with no peer connected drops the observation and goes
\* on to the sleep.
C18_IterationNeverWaits ==
    /\ [](pc = "recv" => ENABLED HostRecv)
    /\ [](pc = "watchdog" => ENABLED HostWatchdog)
    /\ [](pc = "observe" => ENABLED HostObserve)
    /\ [][(ReceiveStep /\ host_cmd_sock.q = <<>>)
          => (rx'.outcome = "absent" /\ pc' = "watchdog")]_vars
    /\ [][(ObserveStep /\ ~obs_peer)
          => (push' = "dropped" /\ pc' = "sleep" /\ UNCHANGED host_obs_sock)]_vars

\* an iteration with no command and no peer has reached its sleep
C18_Witness ==
    /\ pc = "sleep"
    /\ rx.outcome = "absent"
    /\ push = "dropped"
    /\ ~obs_peer

\* C19: after the receive step of an iteration that received the encoding
\* of a mapping, the last-command time is the time of that iteration and
\* the triggered flag is clear, whether send_action returned or raised.
C19_ParsedCommandResetsWatchdog ==
    (pc = "watchdog" /\ rx.outcome \in {"applied", "error"}
        /\ rx.msg.kind = "object")
    => (last_cmd_time = loop_start_time /\ ~watchdog_active)

\* C20: a receive step that takes a text that fails to decode leaves the
\* last-command time, the triggered flag and the first-command flag as
\* they are.
C20_MalformedLeavesWatchdog ==
    [][(/\ ReceiveStep
        /\ host_cmd_sock.q # <<>>
        /\ ~JsonDecodes(Head(host_cmd_sock.q)))
       => UNCHANGED <<last_cmd_time, watchdog_active, first_command_received>>]_vars


\* connection_time_s on the clock of the model
DurationUnits == connection_time_s * UnitsPerSecond

\* C17: the single-arm host goes from its sleep into a new iteration
\* exactly when the run time is below connection_time_s; it leaves the loop
\* on the duration test only once that time has elapsed; and it always
\* comes to leave the loop and complete its cleanup, with or without
\* commands and watchdog stops.
C17_DurationBoundedLoop ==
    /\ [][SleepStep => (pc' = "recv" <=> perf' < DurationUnits)]_vars
    /\ [](exit_cause = "duration" => perf >= DurationUnits)
    /\ <>(pc = "done" /\ log.disconnects = 1)

\* the host has run for connection_time_s, left the loop and cleaned up,
\* the watchdog having stopped the arm on the way
C17_Witness ==
    /\ pc = "done"
    /\ exit_cause = "duration"
    /\ perf >= DurationUnits
    /\ log.stops["arm"] = 1
    /\ log.disconnects = 1


\* the watchdog's staleness test at the present time
StaleNow ==
    IF variant = "single" THEN wall - last_cmd_time > ThresholdUnits
    ELSE wall - last_cmd_time >= StallUnits

\* C21: a command applied while the watchdog is triggered clears the flag,
\* takes the present time as last-command time and calls no stop(); and
\* when, after such a recovery, the watchdog check finds the command stale
\* again, it sets the flag and calls stop() once, and no more for that
\* episode.
C21_RecoverAndRetrigger ==
    /\ [][(ReceiveStep /\ watchdog_active /\ rx'.outcome = "applied")
          => (/\ ~watchdog_active'
              /\ last_cmd_time' = wall
              /\ pc' = "watchdog"
              /\ \A a \in Arms(variant) : log'.stops[a] = 0)]_vars
    /\ [][(WatchdogStep /\ log.recovered /\ ~watchdog_active /\ StaleNow)
          => (/\ watchdog_active'
              /\ \A a \in Arms(variant) : log'.stops[a] <= 1
              /\ pc' = "observe" => \A a \in Arms(variant) : log'.stops[a] = 1)]_vars
    /\ [](log.recovered /\ watchdog_active
            => \A a \in Arms(variant) : log.stops[a] <= 1)

\* the single-arm host's watchdog has triggered, a command has cleared it,
\* and it has triggered again and stopped the arm once
C21_Witness ==
    /\ variant = "single"
    /\ log.recovered
    /\ watchdog_active
    /\ pc = "observe"
    /\ log.stops["arm"] = 1


\* C22: in both hosts the mapping handed to robot.send_action is the
\* decoded command restricted to the keys the driver recognizes.
C22_OnlyRecognizedKeysForwarded ==
    "action" \in DOMAIN rx =>
        LET data == json_loads(rx.msg)
        IN  rx.action = [k \in DOMAIN data \cap RecognizedKeys(variant) |-> data[k]]

\* a call on the Piper driver has just returned or raised
PiperCall(c) ==
    /\ piper_ret'.call = c
    /\ <<piper_connected, piper_sdk, piper_cmd, piper_ret>>' #
       <<piper_connected, piper_sdk, piper_cmd, piper_ret>>

PiperCalls == {"connect", "disconnect", "get_observation", "send_action", "stop"}

\* C23: on the Piper driver the SDK is read or commanded only while
\* is_connected is true; get_observation and send_action while not connected
\* fail with NotConnected; connect while connected fails with
\* AlreadyConnected and makes no second SDK handle; disconnect and stop
\* while not connected do nothing; and every failed call leaves the
\* connection state as it was.
C23_CallsGuardedByConnection ==
    [][\A c \in PiperCalls : PiperCall(c) =>
        /\ piper_ret'.sdk => piper_connected
        /\ (~piper_connected /\ c \in {"get_observation", "send_action"})
              => piper_ret'.result = "NotConnected"
        /\ (piper_connected /\ c = "connect")
              => piper_ret'.result = "AlreadyConnected" /\ piper_sdk' = piper_sdk
        /\ (~piper_connected /\ c \in {"disconnect", "stop"})
              => /\ piper_ret'.result = "ok"
                 /\ UNCHANGED <<piper_connected, piper_sdk, piper_cmd>>
        /\ piper_ret'.result # "ok" => piper_connected' = piper_connected]_vars

\* the teleoperation-style key of each joint (joint 3 has none)
TeleopKeys ==
    <<"shoulder_pan.pos", "shoulder_lift.pos", "elbow_flex.pos", "",
      "wrist_flex.pos", "wrist_roll.pos", "gripper.pos">>

\* C26: stop() while connected commands each of the seven joints to the
\* position under joint_i.pos of the status just read; send_action commands
\* each joint to the value under its teleoperation-style key if the action
\* has it, else to the value under joint_i.pos, else to 0.
C26_StopHoldsPoseAndKeyPriority ==
    /\ [][(PiperCall("stop") /\ piper_connected /\ piper_ret'.result = "ok")
            => /\ Len(piper_cmd') = 7
               /\ \A i \in 1..7 : piper_cmd'[i] = piper_status[JointKeys[i]]]_vars
    /\ [][(PiperCall("send_action") /\ piper_ret'.result = "ok")
            => LET action == piper_ret'.value
               IN  /\ Len(piper_cmd') = 7
                   /\ \A i \in 1..7 :
                        piper_cmd'[i] =
                            IF TeleopKeys[i] \in DOMAIN action
                            THEN action[TeleopKeys[i]]
                            ELSE IF JointKeys[i] \in DOMAIN action
                            THEN action[JointKeys[i]]
                            ELSE PyInt(0)]_vars

\* stop() has returned while connected, the arm having moved since it was
\* connected, and the positions commanded are those of the status
C26_Witness ==
    /\ piper_connected
    /\ piper_ret.call = "stop" /\ piper_ret.result = "ok"
    /\ piper_cmd = SendActionPositions(piper_status)
    /\ piper_status = Status(1)

\* the mapping a dict stands for
AsMap(d) == [key \in DictKeys(d) |-> DictGet(d, key)]

\* the entries of a mapping under the keys that start with the prefix, each
\* under its key with that one prefix removed
SplitOff(m, prefix) ==
    [key \in {Tail(k) : k \in {j \in DOMAIN m : StartsWith(j, prefix)}} |->
        m[Prefixed(prefix, key)]]

\* C24: get_action returns exactly the left arm's entries under "left_"+k
\* and the right arm's under "right_"+k; send_feedback gives each arm
\* exactly the entries whose key starts with its prefix, under the key with
\* that one prefix removed; so feeding back what get_action returned gives
\* each arm its own mapping again.
C24_PrefixSplitInverse ==
    /\ LET left == AsMap(leader_action.left)
           right == AsMap(leader_action.right)
       IN  AsMap(leader_action.combined) =
             [k \in {Prefixed("left_", key) : key \in DOMAIN left}
                    \cup {Prefixed("right_", key) : key \in DOMAIN right} |->
                 IF k[1] = "left_" THEN left[Tail(k)] ELSE right[Tail(k)]]
    /\ (leader_ret.call = "send_feedback" /\ leader_ret.result = "ok") =>
          /\ AsMap(leader_feedback.left) = SplitOff(AsMap(leader_feedback.sent), "left_")
          /\ AsMap(leader_feedback.right) = SplitOff(AsMap(leader_feedback.sent), "right_")
          /\ leader_feedback.sent = leader_action.combined =>
                /\ AsMap(leader_feedback.left) = AsMap(leader_action.left)
                /\ AsMap(leader_feedback.right) = AsMap(leader_action.right)

\* a call of disconnect() that releases both arms
LeaderReleases ==
    LeaderDisconnect /\ ~leader_conn'.left /\ ~leader_conn'.right

\* C29: the leader's two arms end every call either both connected or both
\* disconnected, and while an arm is connected a call of disconnect() can
\* release it.
C29_ArmsConnectedTogether ==
    /\ leader_conn.left = leader_conn.right
    /\ (leader_conn.left \/ leader_conn.right) => ENABLED LeaderReleases

\* C25: once the teleoperator and the robot are connected, however
\* teleop_loop is left (duration reached, interrupt, exception), the script
\* terminates having called teleop.disconnect() once and robot.disconnect()
\* once.
C25_CleanupCallsBothDisconnects ==
    (tel_pc = "terminated" /\ tel_exit \in {"duration", "interrupt", "exception"})
        => tel_calls.teleop = 1 /\ tel_calls.robot = 1

\* C27: with a duration, teleop_loop starts no iteration once the time
\* elapsed since its start has reached the duration: it has returned.
C27_ReturnsAtDuration ==
    (tel_pc = "get_action" /\ tel_duration.given)
        => tel_elapsed < tel_duration.periods

\* C28: after connect() has failed with the handshake timeout the client
\* holds no open context and no open socket, and no connect() has left an
\* open context behind.
C28_TimeoutReleasesChannels ==
    /\ (client_pc = "idle" /\ client_ret = [call |-> "connect", result |-> "Timeout"])
          => /\ client_ctx # "open"
             /\ client_cmd_sock.state # "open"
             /\ client_obs_sock.state # "open"
    /\ client_made.lost = 0
====
